---------------------------- MODULE Spec2Model ----------------------------
(***************************************************************************)
(* Architect fee calculator (architect_fee_calculator_final.py).           *)
(*                                                                         *)
(* The program is a Streamlit script: the widgets hold the inputs, and     *)
(* every change of a widget runs the script again from top to bottom,      *)
(* which recomputes the consultant fees, the schedule rows, the labor      *)
(* total, the two fee estimates and the summary table.                     *)
(*                                                                         *)
(* Python floats are modelled as exact rationals [n, d] in lowest terms    *)
(* with d > 0; Python ints (the hourly rates, the hours) as integers.      *)
(* Dates are [y, m, d] records; date subtraction goes through the          *)
(* proleptic Gregorian ordinal as datetime.date does.                      *)
(***************************************************************************)
EXTENDS Integers, Sequences, FiniteSets, TLC

VARIABLES
    construction_cost,   \* rational, widget of line 27
    base_fee_percent,    \* rational, widget of line 29
    complexity_factor,   \* rational, widget of line 31
    location_factor,     \* rational, widget of line 32
    risk_factor,         \* rational, widget of line 33
    firm_multiplier,     \* rational, widget of line 34
    rates,               \* role -> integer
    hours_data,          \* phase -> role -> integer
    consultant_pct,      \* consultant -> rational
    start_date,          \* phase -> date, widget keyed "<phase>_start"
    end_date,            \* phase -> date, widget keyed "<phase>_end"
    consultant_fees,     \* consultant -> rational
    schedule_rows,       \* sequence of schedule rows
    total_raw,           \* integer
    workplan_fee,        \* rational
    adjusted_pct,        \* rational
    percentage_fee,      \* rational
    df_summary,          \* sequence of [Metric, Amount]
    touched,             \* hours widgets the user has changed
    edits                \* number of widget changes so far

inputs == <<construction_cost, base_fee_percent, complexity_factor,
            location_factor, risk_factor, firm_multiplier, rates,
            hours_data, consultant_pct, start_date, end_date>>

outputs == <<consultant_fees, schedule_rows, total_raw, workplan_fee,
             adjusted_pct, percentage_fee, df_summary>>

vars == <<inputs, outputs, touched, edits>>

---------------------------------------------------------------------------
(* Bounds of the exploration *)

MaxEdits == 2

---------------------------------------------------------------------------
(* Exact rational arithmetic standing for Python float arithmetic *)

Abs(x) == IF x < 0 THEN -x ELSE x

RECURSIVE GCD(_, _)
GCD(a, b) == IF b = 0 THEN a ELSE GCD(b, a % b)

Rat(n, d) ==
    LET g == GCD(Abs(n), Abs(d))
        s == IF d < 0 THEN -1 ELSE 1
    IN  [n |-> (s * n) \div g, d |-> (s * d) \div g]

ToReal(i) == [n |-> i, d |-> 1]

RMul(a, b) == Rat(a.n * b.n, a.d * b.d)

RDiv(a, b) == Rat(a.n * b.d, a.d * b.n)

RLeq(a, b) == a.n * b.d <= b.n * a.d

---------------------------------------------------------------------------
(* Dates *)

Date(y, m, d) == [y |-> y, m |-> m, d |-> d]

IsLeap(y) == y % 4 = 0 /\ (y % 100 # 0 \/ y % 400 = 0)

DaysInMonth(y, m) ==
    IF m = 2 THEN (IF IsLeap(y) THEN 29 ELSE 28)
    ELSE IF m \in {4, 6, 9, 11} THEN 30 ELSE 31

RECURSIVE DaysBeforeMonth(_, _)
DaysBeforeMonth(y, m) ==
    IF m = 1 THEN 0 ELSE DaysBeforeMonth(y, m - 1) + DaysInMonth(y, m - 1)

DaysBeforeYear(y) ==
    LET p == y - 1
    IN  p * 365 + (p \div 4) - (p \div 100) + (p \div 400)

ToOrdinal(dt) == DaysBeforeYear(dt.y) + DaysBeforeMonth(dt.y, dt.m) + dt.d

\* Variant: the length of the span, whatever the order of the two dates
DateDiffDaysAbs(e, s) == Abs(ToOrdinal(e) - ToOrdinal(s))

\* (end - start).days
DateDiffDays(e, s) == ToOrdinal(e) - ToOrdinal(s)

---------------------------------------------------------------------------
(* Configuration literals of the script *)

roles == <<"Principal", "Project Manager", "Architect", "Drafter">>

role_defaults == <<200, 150, 100, 75>>

phases == <<"Pre-Design", "Schematic Design", "Design Development",
            "Construction Documents", "Bidding/Negotiation",
            "Construction Administration">>

consultants == <<"Structural Engineer", "MEP Engineer", "Civil Engineer",
                 "Landscape Architect">>

consultant_defaults == <<Rat(3, 2), Rat(2, 1), Rat(1, 1), Rat(1, 2)>>

RoleSet == {roles[i] : i \in 1..Len(roles)}

PhaseSet == {phases[i] : i \in 1..Len(phases)}

ConsultantSet == {consultants[i] : i \in 1..Len(consultants)}

HoursDefault == 10

ConstructionCostDefault == Rat(1000000, 1)
BaseFeePercentDefault == Rat(8, 100)
ComplexityFactorDefault == Rat(110, 100)
LocationFactorDefault == Rat(1, 1)
RiskFactorDefault == Rat(105, 100)
FirmMultiplierDefault == Rat(3, 1)

\* st.number_input keeps a value only when it lies within [min_value, max_value];
\* a bound is the set holding it, NoBound an omitted min_value or max_value.
NoBound == {}

Bound(x) == {x}

NumberInputAccepts(v, lo, hi) ==
    /\ \A b \in lo : RLeq(b, v)
    /\ \A b \in hi : RLeq(v, b)

CostMin == Bound(Rat(0, 1))
BaseFeeMin == Bound(Rat(0, 1))
BaseFeeMax == Bound(Rat(1, 1))
FactorMin == Bound(Rat(1, 2))
FirmMultiplierMin == Bound(Rat(1, 1))
\* Variant: the hours widgets without a min_value
HoursMinOmitted == NoBound

HoursMin == Bound(ToReal(0))
RateMin == NoBound
ConsultantMin == NoBound

---------------------------------------------------------------------------
(* Values a user types into the widgets *)

CostTyped == {Rat(-1, 1), Rat(0, 1), Rat(10000, 1)}
BaseFeeTyped == {Rat(0, 1), Rat(8, 100), Rat(1, 1), Rat(3, 2)}
ComplexityTyped == {Rat(1, 4), Rat(1, 2), Rat(1, 1)}
LocationTyped == {Rat(1, 4), Rat(1, 1), Rat(3, 2)}
RiskTyped == {Rat(1, 4), Rat(1, 2), Rat(1, 1)}
FirmTyped == {Rat(1, 2), Rat(1, 1), Rat(3, 1), Rat(31, 10)}
RateTyped == {-10, 0, 210}
HoursTyped == {-1, 0, 10, 11}
ConsultantTyped == {Rat(-1, 2), Rat(0, 1), Rat(3, 2), Rat(100, 1)}
Dates == {Date(2024, 1, 1), Date(2024, 1, 11), Date(2024, 3, 1)}
Todays == {Date(2024, 1, 1), Date(2024, 1, 11)}

\* The smaller choice used when every widget of the form is open to change
CostTypedFew == {Rat(-1, 1), Rat(0, 1)}
BaseFeeTypedFew == {Rat(3, 2), Rat(1, 1)}
FactorTypedFew == {Rat(1, 4), Rat(1, 2)}
FirmTypedFew == {Rat(1, 2), Rat(1, 1), Rat(31, 10)}
RateTypedFew == {-10}
HoursTypedFew == {-1, 0}
ConsultantTypedFew == {Rat(100, 1)}

---------------------------------------------------------------------------
(* The script body: what one run computes from the widget values *)

\* Variant: the percentage taken as a fraction, as the base fee percent is
ConsultantFeesNoDivide(cost, pct) ==
    [k \in ConsultantSet |-> RMul(cost, pct[k])]

\* line 65
ConsultantFees(cost, pct) ==
    [k \in ConsultantSet |-> RDiv(RMul(cost, pct[k]), ToReal(100))]

ScheduleRow(i, sd, ed) ==
    [Phase |-> phases[i],
     Start |-> sd[phases[i]],
     End   |-> ed[phases[i]],
     Duration |-> DateDiffDays(ed[phases[i]], sd[phases[i]])]

\* Variant: rows kept in order of their start date
RECURSIVE InsertByStart(_, _)
InsertByStart(rows, row) ==
    IF rows = <<>> THEN <<row>>
    ELSE IF ToOrdinal(row.Start) < ToOrdinal(Head(rows).Start)
         THEN <<row>> \o rows
         ELSE <<Head(rows)>> \o InsertByStart(Tail(rows), row)

RECURSIVE ScheduleRowsByStart(_, _, _)
ScheduleRowsByStart(i, sd, ed) ==
    IF i = 0 THEN <<>>
    ELSE InsertByStart(ScheduleRowsByStart(i - 1, sd, ed), ScheduleRow(i, sd, ed))

\* lines 71-76: rows appended phase by phase
RECURSIVE ScheduleRows(_, _, _)
ScheduleRows(i, sd, ed) ==
    IF i = 0 THEN <<>>
    ELSE Append(ScheduleRows(i - 1, sd, ed), ScheduleRow(i, sd, ed))

\* line 82: the generator runs over phases, and within a phase over roles
RECURSIVE LaborSum(_, _, _, _)
\* Variant: every role billed at the first role's rate
LaborSumFirstRate(pi, ri, hd, rt) ==
    IF pi = 0 THEN 0
    ELSE IF ri = 0 THEN LaborSum(pi - 1, Len(roles), hd, rt)
    ELSE LaborSum(pi, ri - 1, hd, rt) + hd[phases[pi]][roles[ri]] * rt[roles[1]]

LaborSum(pi, ri, hd, rt) ==
    IF pi = 0 THEN 0
    ELSE IF ri = 0 THEN LaborSum(pi - 1, Len(roles), hd, rt)
    ELSE LaborSum(pi, ri - 1, hd, rt) + hd[phases[pi]][roles[ri]] * rt[roles[ri]]

\* Variant: the last phase left out of the sum
TotalRawShort(hd, rt) == LaborSum(Len(phases) - 1, Len(roles), hd, rt)

TotalRaw(hd, rt) == LaborSum(Len(phases), Len(roles), hd, rt)

\* Variant: the multiplier applied to the hours of overhead only (added on)
WorkplanFeeAdded(tr, fm) == Rat(tr * fm.d + fm.n, fm.d)

\* line 83
WorkplanFee(tr, fm) == RMul(ToReal(tr), fm)

\* Variant: the adjusted percentage capped at 100 %
AdjustedPctCapped(b, cf, lf, rf) ==
    LET a == RMul(RMul(RMul(b, cf), lf), rf)
    IN  IF RLeq(a, ToReal(1)) THEN a ELSE ToReal(1)

\* line 84
AdjustedPct(b, cf, lf, rf) == RMul(RMul(RMul(b, cf), lf), rf)

\* line 85
PercentageFee(cost, adj) == RMul(cost, adj)

\* lines 87-90
DfSummary(tr, wf, pf) ==
    << [Metric |-> "Total Raw Labor", Amount |-> ToReal(tr)],
       [Metric |-> "Workplan Fee",    Amount |-> wf],
       [Metric |-> "%-of-Cost Fee",   Amount |-> pf] >>

\* One run of the script on the given widget values
Run(cost, b, cf, lf, rf, fm, rt, hd, cp, sd, ed) ==
    LET tr  == TotalRaw(hd, rt)
        wf  == WorkplanFee(tr, fm)
        adj == AdjustedPct(b, cf, lf, rf)
        pf  == PercentageFee(cost, adj)
    IN  /\ construction_cost' = cost
        /\ base_fee_percent' = b
        /\ complexity_factor' = cf
        /\ location_factor' = lf
        /\ risk_factor' = rf
        /\ firm_multiplier' = fm
        /\ rates' = rt
        /\ hours_data' = hd
        /\ consultant_pct' = cp
        /\ start_date' = sd
        /\ end_date' = ed
        /\ consultant_fees' = ConsultantFees(cost, cp)
        /\ schedule_rows' = ScheduleRows(Len(phases), sd, ed)
        /\ total_raw' = tr
        /\ workplan_fee' = wf
        /\ adjusted_pct' = adj
        /\ percentage_fee' = pf
        /\ df_summary' = DfSummary(tr, wf, pf)

---------------------------------------------------------------------------
(* Initial state: the first run, every widget at its default *)

RatesDefault == [r \in RoleSet |->
                    role_defaults[CHOOSE i \in 1..Len(roles) : roles[i] = r]]

ConsultantPctDefault == [k \in ConsultantSet |->
    consultant_defaults[CHOOSE i \in 1..Len(consultants) : consultants[i] = k]]

InitWith(h, today) ==
    /\ construction_cost = ConstructionCostDefault
    /\ base_fee_percent = BaseFeePercentDefault
    /\ complexity_factor = ComplexityFactorDefault
    /\ location_factor = LocationFactorDefault
    /\ risk_factor = RiskFactorDefault
    /\ firm_multiplier = FirmMultiplierDefault
    /\ rates = RatesDefault
    /\ hours_data = [p \in PhaseSet |-> [r \in RoleSet |-> h]]
    /\ consultant_pct = ConsultantPctDefault
    /\ start_date = [p \in PhaseSet |-> today]
    /\ end_date = [p \in PhaseSet |-> today]
    /\ consultant_fees = ConsultantFees(construction_cost, consultant_pct)
    /\ schedule_rows = ScheduleRows(Len(phases), start_date, end_date)
    /\ total_raw = TotalRaw(hours_data, rates)
    /\ workplan_fee = WorkplanFee(total_raw, firm_multiplier)
    /\ adjusted_pct = AdjustedPct(base_fee_percent, complexity_factor,
                                  location_factor, risk_factor)
    /\ percentage_fee = PercentageFee(construction_cost, adjusted_pct)
    /\ df_summary = DfSummary(total_raw, workplan_fee, percentage_fee)
    /\ touched = IF h = HoursDefault THEN {} ELSE PhaseSet \X RoleSet
    /\ edits = 0

Init == \E today \in Todays : InitWith(HoursDefault, today)

---------------------------------------------------------------------------
(* Widget changes; each one reruns the script *)

\* Variant: the consultant fees kept from the run before
EditConstructionCostKeepsFees(v) ==
    /\ v # construction_cost
    /\ NumberInputAccepts(v, CostMin, NoBound)
    /\ construction_cost' = v
    /\ percentage_fee' = PercentageFee(v, adjusted_pct)
    /\ df_summary' = DfSummary(total_raw, workplan_fee, PercentageFee(v, adjusted_pct))
    /\ UNCHANGED <<base_fee_percent, complexity_factor, location_factor,
                   risk_factor, firm_multiplier, rates, hours_data,
                   consultant_pct, start_date, end_date, consultant_fees,
                   schedule_rows, total_raw, workplan_fee, adjusted_pct,
                   touched>>

EditConstructionCost(v) ==
    /\ v # construction_cost
    /\ NumberInputAccepts(v, CostMin, NoBound)
    /\ Run(v, base_fee_percent, complexity_factor, location_factor,
           risk_factor, firm_multiplier, rates, hours_data, consultant_pct,
           start_date, end_date)
    /\ UNCHANGED touched

EditBaseFeePercent(v) ==
    /\ v # base_fee_percent
    /\ NumberInputAccepts(v, BaseFeeMin, BaseFeeMax)
    /\ Run(construction_cost, v, complexity_factor, location_factor,
           risk_factor, firm_multiplier, rates, hours_data, consultant_pct,
           start_date, end_date)
    /\ UNCHANGED touched

EditComplexityFactor(v) ==
    /\ v # complexity_factor
    /\ NumberInputAccepts(v, FactorMin, NoBound)
    /\ Run(construction_cost, base_fee_percent, v, location_factor,
           risk_factor, firm_multiplier, rates, hours_data, consultant_pct,
           start_date, end_date)
    /\ UNCHANGED touched

EditLocationFactor(v) ==
    /\ v # location_factor
    /\ NumberInputAccepts(v, FactorMin, NoBound)
    /\ Run(construction_cost, base_fee_percent, complexity_factor, v,
           risk_factor, firm_multiplier, rates, hours_data, consultant_pct,
           start_date, end_date)
    /\ UNCHANGED touched

EditRiskFactor(v) ==
    /\ v # risk_factor
    /\ NumberInputAccepts(v, FactorMin, NoBound)
    /\ Run(construction_cost, base_fee_percent, complexity_factor,
           location_factor, v, firm_multiplier, rates, hours_data,
           consultant_pct, start_date, end_date)
    /\ UNCHANGED touched

EditFirmMultiplier(v) ==
    /\ v # firm_multiplier
    /\ NumberInputAccepts(v, FirmMultiplierMin, NoBound)
    /\ Run(construction_cost, base_fee_percent, complexity_factor,
           location_factor, risk_factor, v, rates, hours_data,
           consultant_pct, start_date, end_date)
    /\ UNCHANGED touched

EditRate(r, v) ==
    /\ v # rates[r]
    /\ NumberInputAccepts(ToReal(v), RateMin, NoBound)
    /\ Run(construction_cost, base_fee_percent, complexity_factor,
           location_factor, risk_factor, firm_multiplier,
           [rates EXCEPT ![r] = v], hours_data, consultant_pct,
           start_date, end_date)
    /\ UNCHANGED touched

EditHours(p, r, v) ==
    /\ v # hours_data[p][r]
    /\ NumberInputAccepts(ToReal(v), HoursMin, NoBound)
    /\ Run(construction_cost, base_fee_percent, complexity_factor,
           location_factor, risk_factor, firm_multiplier, rates,
           [hours_data EXCEPT ![p][r] = v], consultant_pct,
           start_date, end_date)
    /\ touched' = touched \cup {<<p, r>>}

EditConsultantPct(k, v) ==
    /\ v # consultant_pct[k]
    /\ NumberInputAccepts(v, ConsultantMin, NoBound)
    /\ Run(construction_cost, base_fee_percent, complexity_factor,
           location_factor, risk_factor, firm_multiplier, rates, hours_data,
           [consultant_pct EXCEPT ![k] = v], start_date, end_date)
    /\ UNCHANGED touched

EditStart(p, dt) ==
    /\ dt # start_date[p]
    /\ Run(construction_cost, base_fee_percent, complexity_factor,
           location_factor, risk_factor, firm_multiplier, rates, hours_data,
           consultant_pct, [start_date EXCEPT ![p] = dt], end_date)
    /\ UNCHANGED touched

EditEnd(p, dt) ==
    /\ dt # end_date[p]
    /\ Run(construction_cost, base_fee_percent, complexity_factor,
           location_factor, risk_factor, firm_multiplier, rates, hours_data,
           consultant_pct, start_date, [end_date EXCEPT ![p] = dt])
    /\ UNCHANGED touched

\* A download button is pressed: the script runs again on unchanged widgets
Rerun ==
    /\ Run(construction_cost, base_fee_percent, complexity_factor,
           location_factor, risk_factor, firm_multiplier, rates, hours_data,
           consultant_pct, start_date, end_date)
    /\ UNCHANGED <<touched, edits>>

Counted(A) == edits < MaxEdits /\ edits' = edits + 1 /\ A

Uncounted(A) == edits' = edits /\ A

\* The whole form
Next ==
    \/ \E v \in CostTypedFew : Counted(EditConstructionCost(v))
    \/ \E v \in BaseFeeTypedFew : Counted(EditBaseFeePercent(v))
    \/ \E v \in FactorTypedFew : Counted(EditComplexityFactor(v))
    \/ \E v \in FactorTypedFew : Counted(EditLocationFactor(v))
    \/ \E v \in FactorTypedFew : Counted(EditRiskFactor(v))
    \/ \E v \in FirmTypedFew : Counted(EditFirmMultiplier(v))
    \/ \E r \in RoleSet, v \in RateTypedFew : Counted(EditRate(r, v))
    \/ \E p \in PhaseSet, r \in RoleSet, v \in HoursTypedFew :
           Counted(EditHours(p, r, v))
    \/ \E k \in ConsultantSet, v \in ConsultantTypedFew :
           Counted(EditConsultantPct(k, v))
    \/ \E p \in PhaseSet, dt \in Dates : Counted(EditStart(p, dt))
    \/ \E p \in PhaseSet, dt \in Dates : Counted(EditEnd(p, dt))
    \/ Rerun

Spec == Init /\ [][Next]_vars

\* Section 1 of the form only (project info), any number of changes
NextInfo ==
    \/ \E v \in CostTyped : Uncounted(EditConstructionCost(v))
    \/ \E v \in BaseFeeTyped : Uncounted(EditBaseFeePercent(v))
    \/ \E v \in ComplexityTyped : Uncounted(EditComplexityFactor(v))
    \/ \E v \in LocationTyped : Uncounted(EditLocationFactor(v))
    \/ \E v \in RiskTyped : Uncounted(EditRiskFactor(v))
    \/ \E v \in FirmTyped : Uncounted(EditFirmMultiplier(v))

SpecInfo == Init /\ [][NextInfo]_vars

\* Construction cost and section 4 (consultant percentages), any number of changes
NextConsult ==
    \/ \E v \in CostTyped : Uncounted(EditConstructionCost(v))
    \/ \E k \in ConsultantSet, v \in ConsultantTyped :
           Uncounted(EditConsultantPct(k, v))

SpecConsult == Init /\ [][NextConsult]_vars

\* Sections 2 and 3 (rates, hours) and the firm multiplier, starting from an
\* hours table the user has cleared
InitLabor == \E today \in Todays : InitWith(0, today)

NextLabor ==
    \/ \E r \in RoleSet, v \in RateTyped : Counted(EditRate(r, v))
    \/ \E p \in PhaseSet, r \in RoleSet, v \in HoursTyped :
           Counted(EditHours(p, r, v))
    \/ \E v \in FirmTyped : Counted(EditFirmMultiplier(v))

SpecLabor == InitLabor /\ [][NextLabor]_vars

\* Section 5 of the form only (schedule tracker)
NextSchedule ==
    \/ \E p \in PhaseSet, dt \in Dates : Counted(EditStart(p, dt))
    \/ \E p \in PhaseSet, dt \in Dates : Counted(EditEnd(p, dt))

SpecSchedule == Init /\ [][NextSchedule]_vars

(* Properties *)

\* Equality and order of rationals by cross-multiplication
REq(a, b) == a.n * b.d = b.n * a.d

RLess(a, b) == a.n * b.d < b.n * a.d

IsRat(a) == a.n \in Int /\ a.d \in Nat \ {0}

AllPairs == PhaseSet \X RoleSet

\* The sum of hours * rate over a set of (phase, role) pairs, each taken once
RECURSIVE SumPairs(_)
SumPairs(S) ==
    IF S = {} THEN 0
    ELSE LET x == CHOOSE y \in S : TRUE
         IN  hours_data[x[1]][x[2]] * rates[x[2]] + SumPairs(S \ {x})

OnlyEntry(p, r, h) ==
    \A q \in AllPairs :
        hours_data[q[1]][q[2]] = (IF q = <<p, r>> THEN h ELSE 0)

\* C1: the total raw labor cost is the sum over all (phase, role) pairs of
\* hours[phase][role] * rates[role], every pair counted once, with no
\* rounding; a single entry of 10 hours at rate 200 gives 2000.
C1_TotalRawIsSumOverPairs ==
    /\ total_raw \in Int
    /\ total_raw = SumPairs(AllPairs)
    /\ \A q \in AllPairs :
           (OnlyEntry(q[1], q[2], 10) /\ rates[q[2]] = 200) => total_raw = 2000

C1_Witness ==
    /\ OnlyEntry("Pre-Design", "Principal", 10)
    /\ rates["Principal"] = 200
    /\ firm_multiplier = ToReal(3)
    /\ total_raw = 2000
    /\ workplan_fee = ToReal(6000)

\* C2: the workplan fee is the total raw labor cost times the firm
\* multiplier; with the labor cost fixed, scaling the multiplier scales the
\* fee by the same factor; and a step that changes neither the labor cost nor
\* the multiplier (a change of the construction cost, of a fee-adjustment
\* factor or of a consultant percentage) leaves the fee as it was.
C2_WorkplanFeeIsProduct ==
    workplan_fee.n * firm_multiplier.d = total_raw * firm_multiplier.n * workplan_fee.d

C2_Scaling ==
    total_raw' = total_raw =>
        workplan_fee'.n * workplan_fee.d * firm_multiplier.n * firm_multiplier'.d
          = workplan_fee.n * workplan_fee'.d * firm_multiplier'.n * firm_multiplier.d

C2_Independent ==
    (total_raw' = total_raw /\ firm_multiplier' = firm_multiplier)
        => workplan_fee' = workplan_fee

C2_WorkplanFee ==
    /\ []C2_WorkplanFeeIsProduct
    /\ [][C2_Scaling /\ C2_Independent]_vars

C2_Witness ==
    /\ firm_multiplier = ToReal(1)
    /\ construction_cost = ToReal(0)
    /\ total_raw = 31500
    /\ workplan_fee = ToReal(31500)

\* C3: the percentage-of-cost fee is constructionCost * baseFeePercent *
\* complexityFactor * locationFactor * riskFactor, not clamped when the
\* adjusted percentage exceeds 1; a zero multiplicand makes the fee 0, and
\* baseFeePercent and all three factors at 1 make the fee the construction
\* cost.
C3_PercentageFeeIsProduct ==
    LET fs == <<construction_cost, base_fee_percent, complexity_factor,
                location_factor, risk_factor>>
        num == fs[1].n * fs[2].n * fs[3].n * fs[4].n * fs[5].n
        den == fs[1].d * fs[2].d * fs[3].d * fs[4].d * fs[5].d
    IN  /\ IsRat(percentage_fee)
        /\ percentage_fee.n * den = num * percentage_fee.d
        /\ (\E i \in 1..5 : fs[i].n = 0) => percentage_fee = ToReal(0)
        /\ (\A i \in 2..5 : fs[i] = ToReal(1)) => percentage_fee = construction_cost

C3_Witness ==
    /\ RLess(ToReal(1), adjusted_pct)
    /\ RLess(ToReal(0), construction_cost)
    /\ RLess(construction_cost, percentage_fee)

\* C4: each consultant's fee is C * v / 100 for that consultant's own
\* percentage v (v = 100 gives C; v = 1.5 and C = 1,000,000 give 15,000),
\* while the base fee percent enters the adjusted percentage undivided.
C4_ConsultantFeeIsPercentOfCost ==
    /\ \A k \in ConsultantSet :
           LET v == consultant_pct[k]
               f == consultant_fees[k]
           IN  /\ IsRat(f)
               /\ f.n * 100 * construction_cost.d * v.d
                    = construction_cost.n * v.n * f.d
               /\ v = ToReal(100) => f = construction_cost
               /\ (v = [n |-> 3, d |-> 2] /\ construction_cost = ToReal(1000000))
                      => f = ToReal(15000)
    /\ adjusted_pct.n * base_fee_percent.d * complexity_factor.d
                    * location_factor.d * risk_factor.d
         = base_fee_percent.n * complexity_factor.n * location_factor.n
                    * risk_factor.n * adjusted_pct.d

C4_Witness ==
    /\ construction_cost = ToReal(10000)
    /\ consultant_pct["MEP Engineer"] = ToReal(100)
    /\ consultant_fees["MEP Engineer"] = ToReal(10000)
    /\ consultant_pct["Structural Engineer"] = [n |-> 3, d |-> 2]
    /\ consultant_fees["Structural Engineer"] = ToReal(150)

\* The calendar walked day by day
MonthLength(y, m) ==
    LET leap == (y % 400 = 0) \/ (y % 4 = 0 /\ y % 100 # 0)
    IN  <<31, IF leap THEN 29 ELSE 28, 31, 30, 31, 30, 31, 31, 30, 31, 30, 31>>[m]

NextDay(dt) ==
    IF dt.d < MonthLength(dt.y, dt.m) THEN [dt EXCEPT !.d = dt.d + 1]
    ELSE IF dt.m < 12 THEN [y |-> dt.y, m |-> dt.m + 1, d |-> 1]
    ELSE [y |-> dt.y + 1, m |-> 1, d |-> 1]

DateBefore(a, b) ==
    \/ a.y < b.y
    \/ a.y = b.y /\ a.m < b.m
    \/ a.y = b.y /\ a.m = b.m /\ a.d < b.d

RECURSIVE DaysForward(_, _)
DaysForward(a, b) == IF a = b THEN 0 ELSE 1 + DaysForward(NextDay(a), b)

\* C5: every schedule entry's duration is end - start in whole days, with no
\* validation or reordering: 0 for equal dates, 10 from 2024-01-01 to
\* 2024-01-11, and the negative of the days from end to start when the end
\* precedes the start; Start and End are as entered.
C5_DurationIsEndMinusStart ==
    \A i \in 1..Len(schedule_rows) :
        LET row == schedule_rows[i]
            s   == start_date[row.Phase]
            e   == end_date[row.Phase]
        IN  /\ row.Start = s
            /\ row.End = e
            /\ row.Duration \in Int
            /\ s = e => row.Duration = 0
            /\ DateBefore(s, e) => row.Duration = DaysForward(s, e)
            /\ DateBefore(e, s) =>
                   row.Duration < 0 /\ row.Duration = -DaysForward(e, s)
            /\ (s = Date(2024, 1, 1) /\ e = Date(2024, 1, 11)) => row.Duration = 10

C5_Witness ==
    \E i \in 1..Len(schedule_rows) :
        /\ schedule_rows[i].Start = Date(2024, 3, 1)
        /\ schedule_rows[i].End = Date(2024, 1, 11)
        /\ schedule_rows[i].Duration = -50

\* C6: the schedule holds exactly one entry per phase, in the order of the
\* phase list (Pre-Design first, Construction Administration last), whatever
\* the dates: the i-th entry carries the i-th phase's name, start and end.
C6_ScheduleKeepsPhaseOrder ==
    /\ Len(schedule_rows) = 6
    /\ schedule_rows[1].Phase = "Pre-Design"
    /\ schedule_rows[6].Phase = "Construction Administration"
    /\ \A i \in 1..6 :
           /\ schedule_rows[i].Phase = phases[i]
           /\ schedule_rows[i].Start = start_date[phases[i]]
           /\ schedule_rows[i].End = end_date[phases[i]]

C6_Witness ==
    /\ DateBefore(schedule_rows[2].Start, schedule_rows[1].Start)
    /\ DateBefore(schedule_rows[6].Start, schedule_rows[2].Start)

\* C7: every hourly rate and every consultant percentage handed to the fee
\* calculation is non-negative, so the total raw labor cost, the workplan fee
\* and every consultant fee are never negative.
C7_RatesAndPercentagesNonNegative ==
    /\ \A r \in RoleSet : rates[r] >= 0
    /\ \A k \in ConsultantSet : consultant_pct[k].n >= 0
    /\ total_raw >= 0
    /\ workplan_fee.n >= 0
    /\ \A k \in ConsultantSet : consultant_fees[k].n >= 0

\* C8: after any sequence of widget changes the fee summary, the consultant
\* fees and the schedule are what one computation from the current widget
\* values gives, and a run on unchanged widget values changes nothing.
C8_OutputsCurrent ==
    LET tr == TotalRaw(hours_data, rates)
        wf == WorkplanFee(tr, firm_multiplier)
        pf == PercentageFee(construction_cost,
                  AdjustedPct(base_fee_percent, complexity_factor,
                              location_factor, risk_factor))
    IN  /\ df_summary = DfSummary(tr, wf, pf)
        /\ total_raw = tr
        /\ workplan_fee = wf
        /\ percentage_fee = pf
        /\ consultant_fees = ConsultantFees(construction_cost, consultant_pct)
        /\ schedule_rows = ScheduleRows(Len(phases), start_date, end_date)

C8_RerunIdempotent == inputs' = inputs => outputs' = outputs

C8_OutputsFunctionOfInputs ==
    /\ []C8_OutputsCurrent
    /\ [][C8_RerunIdempotent]_vars

C8_Witness ==
    /\ edits = 2
    /\ construction_cost = ToReal(0)
    /\ consultant_pct["Civil Engineer"] = ToReal(100)
    /\ consultant_fees["Civil Engineer"] = ToReal(0)
    /\ df_summary[3].Amount = ToReal(0)

\* C9: for non-negative hours and rates the total raw labor cost is
\* non-negative; changing one hours entry by d with everything else fixed
\* changes the total by rates[role] * d; with all hours zero the total and the
\* workplan fee are zero.
C9_NonNegative ==
    ((\A r \in RoleSet : rates[r] >= 0)
        /\ (\A q \in AllPairs : hours_data[q[1]][q[2]] >= 0))
      => total_raw >= 0

C9_ZeroHours ==
    (\A q \in AllPairs : hours_data[q[1]][q[2]] = 0)
      => (total_raw = 0 /\ workplan_fee = ToReal(0))

C9_OneEntryStep ==
    \A q \in AllPairs :
        (/\ rates' = rates
         /\ hours_data' = [hours_data EXCEPT ![q[1]][q[2]] = hours_data'[q[1]][q[2]]])
        => total_raw' - total_raw
             = rates[q[2]] * (hours_data'[q[1]][q[2]] - hours_data[q[1]][q[2]])

C9_TotalRawLinear ==
    /\ [](C9_NonNegative /\ C9_ZeroHours)
    /\ [][C9_OneEntryStep]_vars

C9_Witness ==
    /\ OnlyEntry("Schematic Design", "Architect", 11)
    /\ rates["Architect"] = 100
    /\ total_raw = 1100

\* C10 as stated: every phase has an entry for every role, every entry is a
\* non-negative integer, and an entry the user has not changed holds zero.
HoursTableWithDefault(dflt) ==
    /\ DOMAIN hours_data = PhaseSet
    /\ \A p \in PhaseSet :
           /\ DOMAIN hours_data[p] = RoleSet
           /\ \A r \in RoleSet :
                  /\ hours_data[p][r] \in Nat
                  /\ <<p, r>> \notin touched => hours_data[p][r] = dflt

C10_UntouchedHoursAreZero == HoursTableWithDefault(0)

\* C10 amended: every phase has an entry for every role, every entry is a
\* non-negative integer, and an entry the user has not changed holds the
\* widget's default, 10.
C10_HoursTableComplete == HoursTableWithDefault(10)

C10_Witness ==
    /\ hours_data["Pre-Design"]["Drafter"] = 0
    /\ touched = {<<"Pre-Design", "Drafter">>}
    /\ hours_data["Bidding/Negotiation"]["Principal"] = 10

=============================================================================
